---- MODULE Spec2Model ----
(***************************************************************************)
(* Model of src/main.py: a message is rendered with a fixed 7-row bitmap   *)
(* font into a grid, the grid is laid over consecutive calendar days       *)
(* starting on a Sunday, and every day whose cell is on receives a random  *)
(* number of empty, back-dated git commits.                                *)
(*                                                                         *)
(* A cell is the one-character string "#" or ".", a row of cells is a      *)
(* sequence of them.  A datetime is a record [ord, hour, minute] where ord *)
(* is the proleptic Gregorian ordinal (date.toordinal()).                  *)
(***************************************************************************)
EXTENDS Integers, Sequences, FiniteSets, TLC

\* ------------------------------------------------------------------ bounds

\* longest message (in characters) given on the command line
MaxLen == 2
\* largest value given to --min-commits / --max-commits
MaxCount == 1

\* ------------------------------------------------------- program constants

ASCII_PRINTABLE_FIRST == 32
ASCII_PRINTABLE_LAST == 126
\* range(7): the rows of the grid, the reserved preview lines
NumRows == 7
\* range(25): the slots of the progress bar
BarSlots == 25
\* i * 4 <= percent: the percentage one slot of the bar stands for
SlotPercent == 4
\* replace(hour=12, ...)
NoonHour == 12

\* ------------------------------------------------------------------ inputs

\* code points a message is made of: BEL (not printable), "!" and "A"
Alphabet == {7, 33, 65}

RECURSIVE SeqsUpTo(_, _)
SeqsUpTo(S, n) ==
  IF n = 0 THEN {<<>>}
  ELSE LET shorter == SeqsUpTo(S, n - 1)
       IN  shorter \cup {Append(s, c) : s \in shorter, c \in S}

\* the code points around the ends of the printable range: unit separator
\* and space, tilde and DEL
EdgeChars == {31, 32, 126, 127}

\* the messages: every sequence over Alphabet of at most MaxLen characters
\* and the one-character messages made of an edge character
Messages == SeqsUpTo(Alphabet, MaxLen) \cup {<<c>> : c \in EdgeChars}

\* --start: one date per weekday, Sunday 2023-01-01 (date.toordinal() is
\* 738521) to Saturday 2023-01-07, in the morning or in the afternoon
StartDates ==
  {[ord |-> 738521 + k,
    hour |-> IF k % 2 = 0 THEN 9 ELSE 17,
    minute |-> IF k % 2 = 0 THEN 30 ELSE 45] : k \in 0..6}

\* --min-commits and --max-commits
MinCommitArgs == (-1)..(MaxCount + 1)
MaxCommitArgs == 0..MaxCount

\* the font literal of get_font: one entry per code point 32..126, each the
\* lines of its triple-quoted text with the indentation stripped (<<>> is a
\* blank line)
FontSrc ==
  <<
    (* 32 *) << <<>>, <<".",".">>, <<".",".">>, <<".",".">>, <<".",".">>, <<".",".">>, <<".",".">>, <<".",".">>, <<>> >>,
    (* 33 *) << <<>>, <<".">>, <<"#">>, <<"#">>, <<"#">>, <<".">>, <<"#">>, <<".">>, <<>> >>,
    (* 34 *) << <<>>, <<".",".",".">>, <<"#",".","#">>, <<"#",".","#">>, <<".",".",".">>, <<".",".",".">>, <<".",".",".">>, <<".",".",".">>, <<>> >>,
    (* 35 *) << <<>>, <<".",".",".",".",".">>, <<".","#",".","#",".">>, <<"#","#","#","#","#">>, <<".","#",".","#",".">>, <<"#","#","#","#","#">>, <<".","#",".","#",".">>, <<".",".",".",".",".">>, <<>> >>,
    (* 36 *) << <<>>, <<".",".","#",".",".">>, <<".","#","#","#","#">>, <<"#",".","#",".",".">>, <<".","#","#","#",".">>, <<".",".","#",".","#">>, <<"#","#","#","#",".">>, <<".",".","#",".",".">>, <<>> >>,
    (* 37 *) << <<>>, <<".",".",".",".",".">>, <<"#","#",".",".","#">>, <<"#","#",".","#",".">>, <<".",".","#",".",".">>, <<".","#",".","#","#">>, <<"#",".",".","#","#">>, <<".",".",".",".",".">>, <<>> >>,
    (* 38 *) << <<>>, <<".","#","#",".",".">>, <<"#",".",".","#",".">>, <<".","#",".",".",".">>, <<".","#","#",".",".">>, <<"#",".","#",".","#">>, <<"#",".",".","#","#">>, <<".","#","#",".","#">>, <<>> >>,
    (* 39 *) << <<>>, <<".">>, <<"#">>, <<"#">>, <<".">>, <<".">>, <<".">>, <<".">>, <<>> >>,
    (* 40 *) << <<>>, <<>>, <<".","#">>, <<"#",".">>, <<"#",".">>, <<"#",".">>, <<"#",".">>, <<"#",".">>, <<".","#">>, <<>> >>,
    (* 41 *) << <<>>, <<>>, <<"#",".">>, <<".","#">>, <<".","#">>, <<".","#">>, <<".","#">>, <<".","#">>, <<"#",".">>, <<>> >>,
    (* 42 *) << <<>>, <<".",".",".">>, <<".","#",".">>, <<"#","#","#">>, <<".","#",".">>, <<".",".",".">>, <<".",".",".">>, <<".",".",".">>, <<>> >>,
    (* 43 *) << <<>>, <<".",".",".">>, <<".",".",".">>, <<".","#",".">>, <<"#","#","#">>, <<".","#",".">>, <<".",".",".">>, <<".",".",".">>, <<>> >>,
    (* 44 *) << <<>>, <<".">>, <<".">>, <<".">>, <<".">>, <<".">>, <<"#">>, <<"#">>, <<>> >>,
    (* 45 *) << <<>>, <<".",".",".">>, <<".",".",".">>, <<".",".",".">>, <<"#","#","#">>, <<".",".",".">>, <<".",".",".">>, <<".",".",".">>, <<>> >>,
    (* 46 *) << <<>>, <<".">>, <<".">>, <<".">>, <<".">>, <<".">>, <<"#">>, <<".">>, <<>> >>,
    (* 47 *) << <<>>, <<".",".",".",".",".">>, <<".",".",".",".","#">>, <<".",".",".","#",".">>, <<".",".","#",".",".">>, <<".","#",".",".",".">>, <<"#",".",".",".",".">>, <<".",".",".",".",".">>, <<>> >>,
    (* 48 *) << <<>>, <<".",".",".",".">>, <<".","#","#",".">>, <<"#",".",".","#">>, <<"#",".",".","#">>, <<"#",".",".","#">>, <<".","#","#",".">>, <<".",".",".",".">>, <<>> >>,
    (* 49 *) << <<>>, <<".",".",".">>, <<".","#",".">>, <<"#","#",".">>, <<".","#",".">>, <<".","#",".">>, <<"#","#","#">>, <<".",".",".">>, <<>> >>,
    (* 50 *) << <<>>, <<".",".",".",".">>, <<".","#","#",".">>, <<"#",".",".","#">>, <<".",".","#",".">>, <<"#",".",".",".">>, <<"#","#","#","#">>, <<".",".",".",".">>, <<>> >>,
    (* 51 *) << <<>>, <<".",".",".",".">>, <<"#","#","#",".">>, <<".",".",".","#">>, <<".","#","#",".">>, <<".",".",".","#">>, <<"#","#","#",".">>, <<".",".",".",".">>, <<>> >>,
    (* 52 *) << <<>>, <<".",".",".",".">>, <<".",".","#",".">>, <<".","#","#",".">>, <<"#",".","#",".">>, <<"#","#","#","#">>, <<".",".","#",".">>, <<".",".",".",".">>, <<>> >>,
    (* 53 *) << <<>>, <<".",".",".",".">>, <<"#","#","#","#">>, <<"#",".",".",".">>, <<"#","#","#",".">>, <<".",".",".","#">>, <<"#","#","#",".">>, <<".",".",".",".">>, <<>> >>,
    (* 54 *) << <<>>, <<".",".",".",".">>, <<".","#","#",".">>, <<"#",".",".",".">>, <<"#","#","#",".">>, <<"#",".",".","#">>, <<".","#","#",".">>, <<".",".",".",".">>, <<>> >>,
    (* 55 *) << <<>>, <<".",".",".",".">>, <<"#","#","#","#">>, <<".",".",".","#">>, <<".",".","#",".">>, <<".","#",".",".">>, <<"#",".",".",".">>, <<".",".",".",".">>, <<>> >>,
    (* 56 *) << <<>>, <<".",".",".",".">>, <<".","#","#",".">>, <<"#",".",".","#">>, <<".","#","#",".">>, <<"#",".",".","#">>, <<".","#","#",".">>, <<".",".",".",".">>, <<>> >>,
    (* 57 *) << <<>>, <<".",".",".",".">>, <<".","#","#",".">>, <<"#",".",".","#">>, <<".","#","#","#">>, <<".",".",".","#">>, <<".",".","#",".">>, <<".",".",".",".">>, <<>> >>,
    (* 58 *) << <<>>, <<".">>, <<".">>, <<"#">>, <<".">>, <<"#">>, <<".">>, <<".">>, <<>> >>,
    (* 59 *) << <<>>, <<".">>, <<".">>, <<"#">>, <<".">>, <<"#">>, <<"#">>, <<".">>, <<>> >>,
    (* 60 *) << <<>>, <<".",".",".">>, <<".",".","#">>, <<".","#",".">>, <<"#",".",".">>, <<".","#",".">>, <<".",".","#">>, <<".",".",".">>, <<>> >>,
    (* 61 *) << <<>>, <<".",".",".">>, <<".",".",".">>, <<"#","#","#">>, <<".",".",".">>, <<"#","#","#">>, <<".",".",".">>, <<".",".",".">>, <<>> >>,
    (* 62 *) << <<>>, <<".",".",".">>, <<"#",".",".">>, <<".","#",".">>, <<".",".","#">>, <<".","#",".">>, <<"#",".",".">>, <<".",".",".">>, <<>> >>,
    (* 63 *) << <<>>, <<".",".",".",".">>, <<".","#","#",".">>, <<".",".",".","#">>, <<".",".","#",".">>, <<".",".",".",".">>, <<".",".","#",".">>, <<".",".",".",".">>, <<>> >>,
    (* 64 *) << <<>>, <<".",".",".",".",".">>, <<".","#","#","#",".">>, <<"#",".","#",".","#">>, <<"#",".","#",".","#">>, <<"#",".","#","#","#">>, <<".","#","#",".",".">>, <<".",".",".",".",".">>, <<>> >>,
    (* 65 *) << <<>>, <<".",".",".",".">>, <<".","#","#",".">>, <<"#",".",".","#">>, <<"#","#","#","#">>, <<"#",".",".","#">>, <<"#",".",".","#">>, <<".",".",".",".">>, <<>> >>,
    (* 66 *) << <<>>, <<".",".",".",".">>, <<"#","#","#",".">>, <<"#",".",".","#">>, <<"#","#","#",".">>, <<"#",".",".","#">>, <<"#","#","#",".">>, <<".",".",".",".">>, <<>> >>,
    (* 67 *) << <<>>, <<".",".",".",".">>, <<".","#","#","#">>, <<"#",".",".",".">>, <<"#",".",".",".">>, <<"#",".",".",".">>, <<".","#","#","#">>, <<".",".",".",".">>, <<>> >>,
    (* 68 *) << <<>>, <<".",".",".",".">>, <<"#","#",".",".">>, <<"#",".","#",".">>, <<"#",".",".","#">>, <<"#",".","#",".">>, <<"#","#",".",".">>, <<".",".",".",".">>, <<>> >>,
    (* 69 *) << <<>>, <<".",".",".",".">>, <<"#","#","#","#">>, <<"#",".",".",".">>, <<"#","#","#",".">>, <<"#",".",".",".">>, <<"#","#","#","#">>, <<".",".",".",".">>, <<>> >>,
    (* 70 *) << <<>>, <<".",".",".",".">>, <<"#","#","#","#">>, <<"#",".",".",".">>, <<"#","#","#",".">>, <<"#",".",".",".">>, <<"#",".",".",".">>, <<".",".",".",".">>, <<>> >>,
    (* 71 *) << <<>>, <<".",".",".",".">>, <<".","#","#","#">>, <<"#",".",".",".">>, <<"#",".","#","#">>, <<"#",".",".","#">>, <<".","#","#","#">>, <<".",".",".",".">>, <<>> >>,
    (* 72 *) << <<>>, <<".",".",".",".">>, <<"#",".",".","#">>, <<"#",".",".","#">>, <<"#","#","#","#">>, <<"#",".",".","#">>, <<"#",".",".","#">>, <<".",".",".",".">>, <<>> >>,
    (* 73 *) << <<>>, <<".",".",".">>, <<"#","#","#">>, <<".","#",".">>, <<".","#",".">>, <<".","#",".">>, <<"#","#","#">>, <<".",".",".">>, <<>> >>,
    (* 74 *) << <<>>, <<".",".",".",".">>, <<".",".",".","#">>, <<".",".",".","#">>, <<".",".",".","#">>, <<"#",".",".","#">>, <<".","#","#",".">>, <<".",".",".",".">>, <<>> >>,
    (* 75 *) << <<>>, <<".",".",".",".">>, <<"#",".",".","#">>, <<"#",".","#",".">>, <<"#","#",".",".">>, <<"#",".","#",".">>, <<"#",".",".","#">>, <<".",".",".",".">>, <<>> >>,
    (* 76 *) << <<>>, <<".",".",".",".">>, <<"#",".",".",".">>, <<"#",".",".",".">>, <<"#",".",".",".">>, <<"#",".",".",".">>, <<"#","#","#","#">>, <<".",".",".",".">>, <<>> >>,
    (* 77 *) << <<>>, <<".",".",".",".",".">>, <<".","#",".","#",".">>, <<"#",".","#",".","#">>, <<"#",".","#",".","#">>, <<"#",".",".",".","#">>, <<"#",".",".",".","#">>, <<".",".",".",".",".">>, <<>> >>,
    (* 78 *) << <<>>, <<".",".",".",".",".">>, <<"#",".",".",".","#">>, <<"#","#",".",".","#">>, <<"#",".","#",".","#">>, <<"#",".",".","#","#">>, <<"#",".",".",".","#">>, <<".",".",".",".",".">>, <<>> >>,
    (* 79 *) << <<>>, <<".",".",".",".">>, <<".","#","#",".">>, <<"#",".",".","#">>, <<"#",".",".","#">>, <<"#",".",".","#">>, <<".","#","#",".">>, <<".",".",".",".">>, <<>> >>,
    (* 80 *) << <<>>, <<".",".",".",".">>, <<"#","#","#",".">>, <<"#",".",".","#">>, <<"#","#","#",".">>, <<"#",".",".",".">>, <<"#",".",".",".">>, <<".",".",".",".">>, <<>> >>,
    (* 81 *) << <<>>, <<".",".",".",".">>, <<".","#","#",".">>, <<"#",".",".","#">>, <<"#",".",".","#">>, <<"#",".","#","#">>, <<".","#","#",".">>, <<".",".",".","#">>, <<>> >>,
    (* 82 *) << <<>>, <<".",".",".",".">>, <<"#","#","#",".">>, <<"#",".",".","#">>, <<"#","#","#",".">>, <<"#",".","#",".">>, <<"#",".",".","#">>, <<".",".",".",".">>, <<>> >>,
    (* 83 *) << <<>>, <<".",".",".",".">>, <<".","#","#","#">>, <<"#",".",".",".">>, <<".","#","#",".">>, <<".",".",".","#">>, <<"#","#","#",".">>, <<".",".",".",".">>, <<>> >>,
    (* 84 *) << <<>>, <<".",".",".">>, <<"#","#","#">>, <<".","#",".">>, <<".","#",".">>, <<".","#",".">>, <<".","#",".">>, <<".",".",".">>, <<>> >>,
    (* 85 *) << <<>>, <<".",".",".",".">>, <<"#",".",".","#">>, <<"#",".",".","#">>, <<"#",".",".","#">>, <<"#",".",".","#">>, <<".","#","#",".">>, <<".",".",".",".">>, <<>> >>,
    (* 86 *) << <<>>, <<".",".",".",".">>, <<"#",".",".","#">>, <<"#",".",".","#">>, <<"#",".",".","#">>, <<"#",".","#",".">>, <<".","#",".",".">>, <<".",".",".",".">>, <<>> >>,
    (* 87 *) << <<>>, <<".",".",".",".",".">>, <<"#",".",".",".","#">>, <<"#",".",".",".","#">>, <<"#",".","#",".","#">>, <<"#",".","#",".","#">>, <<".","#",".","#",".">>, <<".",".",".",".",".">>, <<>> >>,
    (* 88 *) << <<>>, <<".",".",".",".",".">>, <<"#",".",".",".","#">>, <<".","#",".","#",".">>, <<".",".","#",".",".">>, <<".","#",".","#",".">>, <<"#",".",".",".","#">>, <<".",".",".",".",".">>, <<>> >>,
    (* 89 *) << <<>>, <<".",".",".">>, <<"#",".","#">>, <<"#",".","#">>, <<".","#",".">>, <<".","#",".">>, <<".","#",".">>, <<".",".",".">>, <<>> >>,
    (* 90 *) << <<>>, <<".",".",".",".">>, <<"#","#","#","#">>, <<".",".","#",".">>, <<".","#",".",".">>, <<"#",".",".",".">>, <<"#","#","#","#">>, <<".",".",".",".">>, <<>> >>,
    (* 91 *) << <<>>, <<"#","#">>, <<"#",".">>, <<"#",".">>, <<"#",".">>, <<"#",".">>, <<"#",".">>, <<"#","#">>, <<>> >>,
    (* 92 *) << <<>>, <<".",".",".",".",".">>, <<"#",".",".",".",".">>, <<".","#",".",".",".">>, <<".",".","#",".",".">>, <<".",".",".","#",".">>, <<".",".",".",".","#">>, <<".",".",".",".",".">>, <<>> >>,
    (* 93 *) << <<>>, <<"#","#">>, <<".","#">>, <<".","#">>, <<".","#">>, <<".","#">>, <<".","#">>, <<"#","#">>, <<>> >>,
    (* 94 *) << <<>>, <<".",".",".">>, <<".","#",".">>, <<"#",".","#">>, <<".",".",".">>, <<".",".",".">>, <<".",".",".">>, <<".",".",".">>, <<>> >>,
    (* 95 *) << <<>>, <<".",".",".">>, <<".",".",".">>, <<".",".",".">>, <<".",".",".">>, <<".",".",".">>, <<"#","#","#">>, <<".",".",".">>, <<>> >>,
    (* 96 *) << <<>>, <<".",".">>, <<"#",".">>, <<".","#">>, <<".",".">>, <<".",".">>, <<".",".">>, <<".",".">>, <<>> >>,
    (* 97 *) << <<>>, <<".",".",".",".">>, <<".","#","#",".">>, <<".",".",".","#">>, <<".","#","#","#">>, <<"#",".",".","#">>, <<".","#","#","#">>, <<".",".",".",".">>, <<>> >>,
    (* 98 *) << <<>>, <<".",".",".",".">>, <<"#",".",".",".">>, <<"#",".",".",".">>, <<"#","#","#",".">>, <<"#",".",".","#">>, <<"#","#","#",".">>, <<".",".",".",".">>, <<>> >>,
    (* 99 *) << <<>>, <<".",".",".">>, <<".",".",".">>, <<".",".",".">>, <<".","#","#">>, <<"#",".",".">>, <<".","#","#">>, <<".",".",".">>, <<>> >>,
    (* 100 *) << <<>>, <<".",".",".",".">>, <<".",".",".","#">>, <<".",".",".","#">>, <<".","#","#","#">>, <<"#",".",".","#">>, <<".","#","#","#">>, <<".",".",".",".">>, <<>> >>,
    (* 101 *) << <<>>, <<".",".",".",".">>, <<".",".",".",".">>, <<".","#","#",".">>, <<"#","#","#","#">>, <<"#",".",".",".">>, <<".","#","#","#">>, <<".",".",".",".">>, <<>> >>,
    (* 102 *) << <<>>, <<".",".",".",".">>, <<".",".","#","#">>, <<".","#",".",".">>, <<"#","#","#",".">>, <<".","#",".",".">>, <<".","#",".",".">>, <<".",".",".",".">>, <<>> >>,
    (* 103 *) << <<>>, <<".",".",".",".">>, <<".",".",".",".">>, <<".","#","#","#">>, <<"#",".",".","#">>, <<".","#","#","#">>, <<".",".",".","#">>, <<".","#","#",".">>, <<>> >>,
    (* 104 *) << <<>>, <<".",".",".",".">>, <<"#",".",".",".">>, <<"#",".",".",".">>, <<"#","#","#",".">>, <<"#",".",".","#">>, <<"#",".",".","#">>, <<".",".",".",".">>, <<>> >>,
    (* 105 *) << <<>>, <<".">>, <<"#">>, <<".">>, <<"#">>, <<"#">>, <<"#">>, <<".">>, <<>> >>,
    (* 106 *) << <<>>, <<".",".",".">>, <<".",".","#">>, <<".",".",".">>, <<".",".","#">>, <<".",".","#">>, <<".",".","#">>, <<"#","#",".">>, <<>> >>,
    (* 107 *) << <<>>, <<".",".",".">>, <<"#",".",".">>, <<"#",".",".">>, <<"#",".","#">>, <<"#","#",".">>, <<"#",".","#">>, <<".",".",".">>, <<>> >>,
    (* 108 *) << <<>>, <<".">>, <<"#">>, <<"#">>, <<"#">>, <<"#">>, <<"#">>, <<".">>, <<>> >>,
    (* 109 *) << <<>>, <<".",".",".",".",".">>, <<".",".",".",".",".">>, <<".",".",".",".",".">>, <<".","#",".","#",".">>, <<"#",".","#",".","#">>, <<"#",".",".",".","#">>, <<".",".",".",".",".">>, <<>> >>,
    (* 110 *) << <<>>, <<".",".",".",".">>, <<".",".",".",".">>, <<".",".",".",".">>, <<".","#","#",".">>, <<"#",".",".","#">>, <<"#",".",".","#">>, <<".",".",".",".">>, <<>> >>,
    (* 111 *) << <<>>, <<".",".",".",".">>, <<".",".",".",".">>, <<".",".",".",".">>, <<".","#","#",".">>, <<"#",".",".","#">>, <<".","#","#",".">>, <<".",".",".",".">>, <<>> >>,
    (* 112 *) << <<>>, <<".",".",".",".">>, <<".",".",".",".">>, <<".","#","#",".">>, <<"#",".",".","#">>, <<"#","#","#",".">>, <<"#",".",".",".">>, <<"#",".",".",".">>, <<>> >>,
    (* 113 *) << <<>>, <<".",".",".",".">>, <<".",".",".",".">>, <<".","#","#",".">>, <<"#",".",".","#">>, <<".","#","#","#">>, <<".",".",".","#">>, <<".",".",".","#">>, <<>> >>,
    (* 114 *) << <<>>, <<".",".",".">>, <<".",".",".">>, <<".",".",".">>, <<".","#","#">>, <<"#",".",".">>, <<"#",".",".">>, <<".",".",".">>, <<>> >>,
    (* 115 *) << <<>>, <<".",".",".",".">>, <<".",".",".",".">>, <<".","#","#","#">>, <<"#",".",".",".">>, <<".",".","#","#">>, <<"#","#","#",".">>, <<".",".",".",".">>, <<>> >>,
    (* 116 *) << <<>>, <<".",".",".">>, <<".","#",".">>, <<".","#",".">>, <<"#","#","#">>, <<".","#",".">>, <<".","#",".">>, <<".",".",".">>, <<>> >>,
    (* 117 *) << <<>>, <<".",".",".",".">>, <<".",".",".",".">>, <<".",".",".",".">>, <<"#",".",".","#">>, <<"#",".",".","#">>, <<".","#","#",".">>, <<".",".",".",".">>, <<>> >>,
    (* 118 *) << <<>>, <<".",".",".",".">>, <<".",".",".",".">>, <<".",".",".",".">>, <<"#",".",".","#">>, <<"#",".","#",".">>, <<".","#",".",".">>, <<".",".",".",".">>, <<>> >>,
    (* 119 *) << <<>>, <<".",".",".",".",".">>, <<".",".",".",".",".">>, <<".",".",".",".",".">>, <<"#",".",".",".","#">>, <<"#",".","#",".","#">>, <<".","#",".","#",".">>, <<".",".",".",".",".">>, <<>> >>,
    (* 120 *) << <<>>, <<".",".",".">>, <<".",".",".">>, <<".",".",".">>, <<"#",".","#">>, <<".","#",".">>, <<"#",".","#">>, <<".",".",".">>, <<>> >>,
    (* 121 *) << <<>>, <<".",".",".">>, <<".",".",".">>, <<"#",".","#">>, <<".","#","#">>, <<".",".","#">>, <<".","#",".">>, <<".",".",".">>, <<>> >>,
    (* 122 *) << <<>>, <<".",".",".">>, <<".",".",".">>, <<"#","#","#">>, <<".","#",".">>, <<"#",".",".">>, <<"#","#","#">>, <<".",".",".">>, <<>> >>,
    (* 123 *) << <<>>, <<".","#","#">>, <<".","#",".">>, <<".","#",".">>, <<"#",".",".">>, <<".","#",".">>, <<".","#",".">>, <<".","#","#">>, <<>> >>,
    (* 124 *) << <<>>, <<".">>, <<"#">>, <<"#">>, <<"#">>, <<"#">>, <<"#">>, <<".">>, <<>> >>,
    (* 125 *) << <<>>, <<"#","#",".">>, <<".","#",".">>, <<".","#",".">>, <<".",".","#">>, <<".","#",".">>, <<".","#",".">>, <<"#","#",".">>, <<>> >>,
    (* 126 *) << <<>>, <<".",".",".",".",".",".">>, <<".",".",".",".",".",".">>, <<".","#","#",".",".","#">>, <<"#",".",".","#","#",".">>, <<".",".",".",".",".",".">>, <<".",".",".",".",".",".">>, <<".",".",".",".",".",".">>, <<>> >>
  >>

\* get_font's return: each glyph text split on whitespace, which drops the
\* blank first and last lines and the indentation of the others
\* mutant: the blank lines are kept as rows of the glyph
Split_m(lines) == lines

RECURSIVE Split(_)
Split(lines) ==
  IF lines = <<>> THEN <<>>
  ELSE IF Head(lines) = <<>> THEN Split(Tail(lines))
       ELSE <<Head(lines)>> \o Split(Tail(lines))

get_font == [k \in 1..Len(FontSrc) |-> Split(FontSrc[k])]

\* ------------------------------------------------------------- the grid

\* font[ord(char) - ASCII_PRINTABLE_FIRST], a list indexed from 0
font_letter(font, code) == font[code - ASCII_PRINTABLE_FIRST + 1]

\* row_text = "." ; for char in message: row_text += font_letter[row] + "."
\* (row counts from 0)
\* mutant: one "." before every glyph and none after the last one
RECURSIVE row_text_m(_, _, _)
row_text_m(font, message, row) ==
  IF message = <<>> THEN <<>>
  ELSE row_text_m(font, SubSeq(message, 1, Len(message) - 1), row)
         \o <<".">> \o font_letter(font, message[Len(message)])[row + 1]

RECURSIVE row_text(_, _, _)
row_text(font, message, row) ==
  IF message = <<>> THEN <<".">>
  ELSE row_text(font, SubSeq(message, 1, Len(message) - 1), row)
         \o font_letter(font, message[Len(message)])[row + 1] \o <<".">>

\* "".join(["#" if c == "." else "." for c in row_text])
\* mutant: the left margin column is not flipped
invert_row_m(text) ==
  [k \in 1..Len(text) |->
     IF k = 1 THEN text[k] ELSE IF text[k] = "." THEN "#" ELSE "."]

invert_row(text) == [k \in 1..Len(text) |-> IF text[k] = "." THEN "#" ELSE "."]

\* the grid of main: one row_text per row, inverted when --invert is given
build_grid(font, message, invert) ==
  [r \in 1..NumRows |->
     IF invert THEN invert_row(row_text(font, message, r - 1))
     ELSE row_text(font, message, r - 1)]

\* ------------------------------------------------------------ the dates

\* datetime.weekday(): Monday is 0 and Sunday is 6
weekday(dt) == (dt.ord + 6) % 7

\* mutant: weekday() taken as if Sunday were 0
days_since_sunday_m(dt) == weekday(dt)

\* the argument of timedelta(days=...) that takes a date back to Sunday
days_since_sunday(dt) == (weekday(dt) + 1) % 7

\* replace(hour=12, minute=0, second=0, microsecond=0)
at_noon(dt) == [dt EXCEPT !.hour = NoonHour, !.minute = 0]

\* dt + timedelta(days=n)
plus_days(dt, n) == [dt EXCEPT !.ord = dt.ord + n]

\* beginning, from args.start
window_start(start) ==
  plus_days(at_noon(start), 0 - days_since_sunday(at_noon(start)))

\* ------------------------------------------------------- the progress bar

\* progress(num / den): slot i (from 0) is filled when i * 4 <= percent;
\* the label is int(percent)
progress(num, den) ==
  [bar   |-> [k \in 1..BarSlots |->
                IF (k - 1) * SlotPercent * den <= num THEN "=" ELSE " "],
   label |-> num \div den]

\* ------------------------------------------------------------- the state

VARIABLES
  pc,           \* where main is
  args,         \* the parsed command line
  exit_code,    \* the status of the process (0 until it fails)
  stderr,       \* what eprint wrote
  grid,         \* the grid of cells, 7 rows
  num_days,     \* len(grid) * len(grid[0])
  beginning,    \* the first day of the window
  end,          \* the last day of the window
  day,          \* the loop variable of main's loop over the days
  char,         \* grid[day % 7][day // 7], the cell of the day
  the_date,     \* beginning + day
  num_commits,  \* the commits drawn for the day
  issued,       \* commit requests made so far in the day's inner loop
  requests,     \* the date of every git commit run for the current day
  committed,    \* how many of them git carried out
  any_request,  \* whether git was ever run
  reports,      \* the days a progress text was printed for, in order
  bar,          \* the last progress text printed
  cursor,       \* the terminal cursor: line (0 is the first line after
                \* the "Ending on" line) and column
  screen        \* the cells the preview wrote: <<line, column, character>>

vars == <<pc, args, exit_code, stderr, grid, num_days, beginning, end, day, char,
          the_date, num_commits, issued, requests, committed, any_request,
          reports, bar, cursor, screen>>

NoDate == [ord |-> 0, hour |-> 0, minute |-> 0]
NoBar == [bar |-> <<>>, label |-> 0]

\* args after parser.parse_args(), message already joined
Init ==
  /\ pc = "validate"
  /\ args \in [message : Messages, min_commits : MinCommitArgs,
               max_commits : MaxCommitArgs, dry_run : BOOLEAN,
               invert : BOOLEAN, preview : BOOLEAN, start : StartDates]
  /\ exit_code = 0
  /\ stderr = <<>>
  /\ grid = <<>>
  /\ num_days = 0
  /\ beginning = NoDate
  /\ end = NoDate
  /\ day = 0
  /\ char = "."
  /\ the_date = NoDate
  /\ num_commits = 0
  /\ issued = 0
  /\ requests = <<>>
  /\ committed = 0
  /\ any_request = FALSE
  /\ reports = <<>>
  /\ bar = NoBar
  /\ cursor = [line |-> 0, col |-> 0]
  /\ screen = {}

\* ------------------------------------------------------------ validation

invalid_chars(message) ==
  SelectSeq(message, LAMBDA digit :
              digit < ASCII_PRINTABLE_FIRST \/ digit > ASCII_PRINTABLE_LAST)

\* mutant: min_commits is not compared with max_commits
validation_error_m(a) ==
  IF Len(a.message) = 0 THEN "Empty message is invalid"
  ELSE IF a.min_commits < 0 THEN "MIN_COMMITS must be at least 0"
  ELSE IF a.max_commits < 1 THEN "MAX_COMMITS must be at least 1"
  ELSE IF Len(invalid_chars(a.message)) > 0
         THEN "Unsupported characters in message"
  ELSE ""

\* the first check of main that fails, "" when none does
validation_error(a) ==
  IF Len(a.message) = 0 THEN "Empty message is invalid"
  ELSE IF a.min_commits < 0 THEN "MIN_COMMITS must be at least 0"
  ELSE IF a.max_commits < 1 THEN "MAX_COMMITS must be at least 1"
  ELSE IF a.min_commits > a.max_commits
         THEN "MIN_COMMITS cannot be more than MAX_COMMITS"
  ELSE IF Len(invalid_chars(a.message)) > 0
         THEN "Unsupported characters in message"
  ELSE ""

\* print_usage, eprint, sys.exit(1)
Reject ==
  /\ pc = "validate"
  /\ validation_error(args) # ""
  /\ stderr' = <<validation_error(args), invalid_chars(args.message)>>
  /\ exit_code' = 1
  /\ pc' = "exited"
  /\ UNCHANGED <<args, grid, num_days, beginning, end, day, char, the_date,
                 num_commits, issued, requests, committed, any_request,
                 reports, bar, cursor, screen>>

\* the checks pass: the grid is built, the window computed and, with
\* --preview, one empty line printed per row of the grid
Prepare ==
  /\ pc = "validate"
  /\ validation_error(args) = ""
  /\ grid' = build_grid(get_font, args.message, args.invert)
  /\ num_days' = Len(grid') * Len(grid'[1])
  /\ beginning' = window_start(args.start)
  /\ end' = plus_days(beginning', num_days' - 1)
  /\ cursor' = [line |-> IF args.preview THEN Len(grid') ELSE 0, col |-> 0]
  /\ day' = 0
  /\ pc' = "loop"
  /\ UNCHANGED <<args, exit_code, stderr, char, the_date, num_commits,
                 issued, requests, committed, any_request, reports, bar,
                 screen>>

\* ----------------------------------------------------- the loop over days

\* grid[y][x] with y = day % 7 and x = day // 7
cell_of(g, d) == g[(d % NumRows) + 1][(d \div NumRows) + 1]

\* the number of characters of str(n), n >= 0
RECURSIVE digits(_)
digits(n) == IF n < 10 THEN 1 ELSE 1 + digits(n \div 10)

\* print(f"\r{the_date} {progress(...)}", end=""): the cursor goes to column
\* 0 and then past the 19 characters of the date, a space, and "[bar] n%"
print_progress(c, p) ==
  [c EXCEPT !.col = 19 + 1 + 1 + Len(p.bar) + 1 + 1 + digits(p.label) + 1]

\* the head of an iteration, up to and including the progress text
LoopHead ==
  /\ pc = "loop"
  /\ day < num_days
  /\ char' = cell_of(grid, day)
  /\ the_date' = plus_days(beginning, day)
  /\ bar' = progress(day * 100, num_days)
  /\ reports' = Append(reports, day)
  /\ cursor' = print_progress(cursor, bar')

\* if char == ".": continue
SkipDay ==
  /\ LoopHead
  /\ char' = "."
  /\ day' = day + 1
  /\ UNCHANGED <<pc, args, exit_code, stderr, grid, num_days, beginning, end,
                 num_commits, issued, requests, committed, any_request,
                 screen>>

\* mutant: the upper end is included, as random.randint does
randrange_m(n) == 0..n

\* the values random.randrange(n) draws from
randrange(n) == 0..(n - 1)

\* the cell is on and the run is not a dry run: the number of commits of
\* the day is min_commits + random.randrange(commits_diff)
DrawCommits ==
  /\ LoopHead
  /\ char' # "."
  /\ ~args.dry_run
  /\ LET commits_diff == args.max_commits - args.min_commits + 1
     IN  \E r \in randrange(commits_diff) :
           num_commits' = args.min_commits + r
  /\ issued' = 0
  /\ pc' = "body"
  /\ UNCHANGED <<args, exit_code, stderr, grid, num_days, beginning, end, day,
                 requests, committed, any_request, screen>>

\* the cell is on and the run is a dry run: sleep(0.002)
DrySleep ==
  /\ LoopHead
  /\ char' # "."
  /\ args.dry_run
  /\ pc' = "body"
  /\ UNCHANGED <<args, exit_code, stderr, grid, num_days, beginning, end, day,
                 num_commits, issued, requests, committed, any_request,
                 screen>>

\* one pass of "for _ in range(num_commits)": git commit --allow-empty
\* --date=the_date is run
RunGit ==
  /\ pc = "body"
  /\ ~args.dry_run
  /\ issued < num_commits
  /\ issued' = issued + 1
  /\ requests' = Append(requests, the_date)
  /\ any_request' = TRUE

\* git ends with status 0: the commit exists
CommitOk ==
  /\ RunGit
  /\ committed' = committed + 1
  /\ UNCHANGED <<pc, args, exit_code, stderr, grid, num_days, beginning, end,
                 day, char, the_date, num_commits, reports, bar, cursor,
                 screen>>

\* git ends with another status: subprocess.run returns all the same and
\* the status is not looked at
CommitFails ==
  /\ RunGit
  /\ UNCHANGED <<pc, args, exit_code, stderr, grid, num_days, beginning, end,
                 day, char, the_date, num_commits, committed, reports, bar,
                 cursor, screen>>

\* there is no git executable: subprocess.run raises FileNotFoundError,
\* which nothing catches, and the interpreter exits with status 1
GitAbsent ==
  /\ pc = "body"
  /\ ~args.dry_run
  /\ issued < num_commits
  /\ stderr' = <<"FileNotFoundError", <<>>>>
  /\ exit_code' = 1
  /\ pc' = "exited"
  /\ UNCHANGED <<args, grid, num_days, beginning, end, day, char, the_date,
                 num_commits, issued, requests, committed, any_request,
                 reports, bar, cursor, screen>>

\* cursor_up(n), cursor_down(n), cursor_right(n): nothing when n = 0
cursor_up(c, n) == IF n > 0 THEN [c EXCEPT !.line = @ - n] ELSE c
cursor_down(c, n) == IF n > 0 THEN [c EXCEPT !.line = @ + n] ELSE c
cursor_right(c, n) == IF n > 0 THEN [c EXCEPT !.col = @ + n] ELSE c

\* mutant: the cursor goes up one line less
preview_at_m(c, d) ==
  cursor_right(cursor_up([c EXCEPT !.col = 0], 6 - (d % NumRows)),
               d \div NumRows)

\* the cursor when the preview prints char: after "\r", cursor_up(7 - y)
\* and cursor_right(x)
preview_at(c, d) ==
  cursor_right(cursor_up([c EXCEPT !.col = 0], 7 - (d % NumRows)),
               d \div NumRows)

\* mutant: the inner loop is left before num_commits passes are made
BodyDone_m == pc = "body"

\* the commit step of the day is over
BodyDone ==
  /\ pc = "body"
  /\ args.dry_run \/ issued = num_commits

\* the end of an iteration with --preview: the cell is drawn
PreviewDay ==
  /\ BodyDone
  /\ args.preview
  /\ LET at == preview_at(cursor, day)
     IN  /\ screen' = screen \cup {<<at.line, at.col, char>>}
         /\ cursor' = cursor_down([at EXCEPT !.col = @ + 1],
                                  7 - (day % NumRows))
  /\ day' = day + 1
  /\ requests' = <<>>
  /\ committed' = 0
  /\ pc' = "loop"
  /\ UNCHANGED <<args, exit_code, stderr, grid, num_days, beginning, end, char,
                 the_date, num_commits, issued, any_request, reports, bar>>

\* the end of an iteration without --preview
EndDay ==
  /\ BodyDone
  /\ ~args.preview
  /\ day' = day + 1
  /\ requests' = <<>>
  /\ committed' = 0
  /\ pc' = "loop"
  /\ UNCHANGED <<args, exit_code, stderr, grid, num_days, beginning, end, char,
                 the_date, num_commits, issued, any_request, reports, bar,
                 cursor, screen>>

\* after the loop: print(f"\r{the_date} {progress(100)}", end="")
Finish ==
  /\ pc = "loop"
  /\ day = num_days
  /\ bar' = progress(100, 1)
  /\ cursor' = print_progress(cursor, bar')
  /\ pc' = "done"
  /\ UNCHANGED <<args, exit_code, stderr, grid, num_days, beginning, end, day,
                 char, the_date, num_commits, issued, requests, committed,
                 any_request, reports, screen>>

Next ==
  \/ Reject
  \/ Prepare
  \/ SkipDay
  \/ DrawCommits
  \/ DrySleep
  \/ CommitOk
  \/ CommitFails
  \/ GitAbsent
  \/ PreviewDay
  \/ EndDay
  \/ Finish

Spec == Init /\ [][Next]_vars

\* ---------------------------------------------------------------- claims

\* main got past the validation: the grid and the window exist
Prepared == grid # <<>>

\* the state right after the grid and the window were computed
JustPrepared == pc = "loop" /\ reports = <<>>

\* 2023-01-01, ordinal 738521, is a Sunday
IsSunday(ordinal) == (ordinal - 738521) % 7 = 0

\* what the command line is when it is invalid, in the words of the usage
BadInput(a) ==
  \/ a.message = <<>>
  \/ \E k \in 1..Len(a.message) : a.message[k] \notin 32..126
  \/ a.min_commits < 0
  \/ a.max_commits < 1
  \/ a.min_commits > a.max_commits

\* C1: an invocation with an empty message, a character outside 32..126 or
\* inconsistent commit bounds never gets past the validation, ends with a
\* non-zero status, and git is never run, dry run or not.
C1_InvalidInputIsFatal ==
  BadInput(args) =>
    /\ pc \in {"validate", "exited"}
    /\ pc = "exited" => exit_code # 0
    /\ ~any_request
    /\ requests = <<>>
    /\ committed = 0

C1_Witness ==
  /\ pc = "exited"
  /\ exit_code = 1
  /\ ~args.dry_run
  /\ args.message # <<>>
  /\ \A k \in 1..Len(args.message) : args.message[k] \in 32..126
  /\ args.min_commits >= 0
  /\ args.max_commits >= 1
  /\ args.min_commits > args.max_commits

\* C2: the commit requests of a day all carry the day's own date (the
\* first day of the window plus d days, at noon) and are made only when
\* the day's cell (d mod 7, d div 7) is on and the run is not a dry run;
\* when the commit step of a day is over their number is 0 in a dry run
\* and otherwise some n with min_commits <= n <= max_commits.
C2_CommitsPerDay ==
  /\ \A k \in 1..Len(requests) :
       requests[k] = [ord |-> beginning.ord + day, hour |-> 12, minute |-> 0]
  /\ requests # <<>> =>
       /\ grid[(day % 7) + 1][(day \div 7) + 1] = "#"
       /\ ~args.dry_run
  /\ BodyDone =>
       IF args.dry_run THEN Len(requests) = 0
       ELSE /\ args.min_commits <= Len(requests)
            /\ Len(requests) <= args.max_commits

C2_Witness ==
  /\ BodyDone
  /\ ~args.dry_run
  /\ args.min_commits < args.max_commits
  /\ Len(requests) = args.max_commits
  /\ day > 0

\* the sum of the widths of the glyphs of a message
RECURSIVE GlyphWidths(_)
GlyphWidths(message) ==
  IF message = <<>> THEN 0
  ELSE Len(get_font[Head(message) - 31][1]) + GlyphWidths(Tail(message))

C4_WindowStartsOnSunday ==
  Prepared =>
    /\ IsSunday(beginning.ord)
    /\ beginning.ord <= args.start.ord
    /\ args.start.ord - beginning.ord <= 6
    /\ IsSunday(args.start.ord) => beginning.ord = args.start.ord
    /\ beginning.hour = 12 /\ beginning.minute = 0

C4_Witness ==
  /\ Prepared
  /\ args.start.ord - beginning.ord = 6

\* every glyph of the font has 7 rows of one length
FontIsRectangular ==
  \A k \in 1..Len(get_font) :
    /\ Len(get_font[k]) = 7
    /\ \A r \in 1..7 : Len(get_font[k][r]) = Len(get_font[k][1])

\* C5: the window is 7 x the column count of the grid long, the grid has
\* 7 rows of one length, and d -> (d mod 7, d div 7) is a bijection between
\* the days of the window and the cells of the grid, undone by
\* column * 7 + row.
C5_DaysAndCells ==
  /\ FontIsRectangular
  /\ Prepared =>
       /\ Len(grid) = 7
       /\ num_days = 7 * Len(grid[1])
       /\ day < num_days =>
            /\ (day % 7) + 1 \in DOMAIN grid
            /\ (day \div 7) + 1 \in DOMAIN grid[(day % 7) + 1]
  /\ JustPrepared =>
       /\ \A r \in 1..7 : Len(grid[r]) = Len(grid[1])
       /\ \A d \in 0..(num_days - 1) :
            /\ d % 7 < Len(grid)
            /\ d \div 7 < Len(grid[(d % 7) + 1])
            /\ (d \div 7) * 7 + (d % 7) = d
       /\ \A r \in 0..(Len(grid) - 1) :
            \A c \in 0..(Len(grid[r + 1]) - 1) :
              /\ c * 7 + r \in 0..(num_days - 1)
              /\ (c * 7 + r) % 7 = r
              /\ (c * 7 + r) \div 7 = c

C5_Witness ==
  /\ JustPrepared
  /\ Len(args.message) = 2
  /\ num_days = 7 * 8

\* C6 as stated: a run that got past the validation is never stopped by a
\* commit request, whether git fails or is absent.
C6_RunGoesOn == Prepared => pc # "exited"

\* the flip of a whole grid
Flip(g) == [r \in DOMAIN g |-> invert_row(g[r])]

\* C7: a day is on in the inverted run exactly when it is off in the run
\* of the same message that is not inverted, in every column, and flipping
\* a grid twice gives it back.
C7_Inversion ==
  JustPrepared =>
    LET other == build_grid(get_font, args.message, ~args.invert)
    IN  /\ \A d \in 0..(num_days - 1) :
             (cell_of(grid, d) = ".") # (cell_of(other, d) = ".")
        /\ Flip(Flip(grid)) = grid
        /\ Flip(Flip(other)) = other

C7_Witness ==
  /\ JustPrepared
  /\ args.invert
  /\ args.message = <<65, 33>>
  /\ grid[1][1] = "#"

\* C8 as stated: the bar has 25 slots; at 0% none is filled and the label
\* is 0, at 100% all are filled and the label is 100.
C8_ProgressBar ==
  /\ bar # NoBar => Len(bar.bar) = 25
  /\ reports = <<0>> =>
       /\ \A k \in 1..25 : bar.bar[k] = " "
       /\ bar.label = 0
  /\ pc = "done" =>
       /\ \A k \in 1..25 : bar.bar[k] = "="
       /\ bar.label = 100

\* C9: the progress texts are printed for the days 0, 1, 2, ... in this
\* order, one per day, also for a day whose cell is off; the text of a day
\* is printed before the day's first commit request; the inner loop of a
\* day is over before the text of the next day is printed; a run that
\* ends normally has printed one text for each day of the window.
C9_DaysInOrder ==
  /\ \A k \in 1..Len(reports) : reports[k] = k - 1
  /\ pc = "loop" => Len(reports) = day
  /\ pc = "body" => Len(reports) = day + 1
  /\ requests # <<>> =>
       /\ reports # <<>>
       /\ reports[Len(reports)] = day
       /\ \A k \in 1..Len(requests) : requests[k].ord = beginning.ord + day
  /\ (pc = "loop" /\ ~args.dry_run) => issued = num_commits
  /\ pc = "done" =>
       /\ Len(reports) = num_days
       /\ day = num_days

C9_Witness ==
  /\ pc = "loop"
  /\ day = 9
  /\ reports = <<0, 1, 2, 3, 4, 5, 6, 7, 8>>
  /\ ~args.dry_run
  /\ ~args.invert
  /\ args.message = <<33>>
  /\ num_commits = 1
  /\ any_request

\* the days before d whose preview step was reached
PreviewedDays == {d \in 0..(day - 1) : cell_of(grid, d) # "."}

\* C10 as stated: with --preview, every day processed, on or off, has its
\* character written at (d mod 7, d div 7).
C10_Original ==
  (args.preview /\ pc \in {"loop", "done"}) =>
    \A d \in 0..(day - 1) :
      <<d % 7, d \div 7, cell_of(grid, d)>> \in screen

\* C10, amended: with --preview, every processed day whose cell is on has
\* "#" written at line d mod 7, column d div 7 of the 7 reserved lines, and
\* nothing is written for a day whose cell is off; after it the cursor is
\* back on the progress line; the cursor is never above the first reserved
\* line.  Without --preview nothing is written.
C10_Preview ==
  /\ (args.preview /\ pc \in {"loop", "done"}) =>
       screen = {<<d % 7, d \div 7, "#">> : d \in PreviewedDays}
  /\ (args.preview /\ pc \in {"loop", "body", "done"}) => cursor.line = 7
  /\ \A w \in screen : w[1] \in 0..6 /\ w[2] >= 0
  /\ ~args.preview => screen = {}

C10_Witness ==
  /\ args.preview
  /\ pc = "done"
  /\ args.message = <<33>>
  /\ ~args.invert
  /\ screen = {<<1, 1, "#">>, <<2, 1, "#">>, <<3, 1, "#">>, <<5, 1, "#">>}

====
